---- MODULE Spec2Model ----
(***************************************************************************)
(* A model of the two reporting scripts of Pull-CML-Consumption-Metrics:   *)
(*   export-job-history.py  (gather_all_job_runs, write_all_job_runs_csv,  *)
(*                           to_iso, main)                                 *)
(*   pull-cml-metrics.py    (get_job_resources, get_application_resources, *)
(*                           get_model_resources, aggregate_resources)     *)
(* The management API is the environment: every call either raises         *)
(* ApiException or returns a response drawn from a small set.              *)
(***************************************************************************)
EXTENDS Integers, Sequences, FiniteSets, TLC

VARIABLES
    pc,              \* control location of the script being run
    project_lookup,  \* export: dict project id -> project name
    pi,              \* export: position of the project loop in project_lookup
    job_list,        \* export: job_list.jobs of the project being visited
    job_meta,        \* export: dict job id -> jobName, userUsername, ...
    ji,              \* export: position of the job loop in job_list
    run_user,        \* export: the locals run_userUsername, run_userName, run_userEmail
    rows,            \* export: the list of row dicts (all_runs in main)
    csv,             \* export: lines written to all_job_runs.csv
    log,             \* lines printed to standard output
    api,             \* the API calls made so far, each with its outcome
    input,           \* the arguments a function is applied to, when one is run alone
    all_projects,    \* metrics: the projects aggregate_resources loops over
    ai,              \* metrics: position of that loop in all_projects
    totals,          \* metrics: total_job_resources, total_app_resources, ...
    result           \* metrics: what aggregate_resources returned

exportVars == <<project_lookup, pi, job_list, job_meta, ji, run_user, rows, csv>>

metricsVars == <<all_projects, ai, totals, result>>

vars == <<pc, exportVars, log, api, input, metricsVars>>

----------------------------------------------------------------------------
(* Bounds of the model *)

\* most rows write_all_job_runs_csv is given when it is run alone
MaxCsvRows == 3

\* most entities (jobs, applications, models) the list responses of one aggregation
\* hold between them
MaxEntities == 3

\* most rows one export holds: the list_job_runs responses of one export hold no
\* more runs than this between them
MaxRows == 3

----------------------------------------------------------------------------
(* Python values: None, str, int, datetime; an attribute an object lacks *)

None == [t |-> "none"]
Absent == [t |-> "absent"]
\* a local variable not assigned yet
Unbound == [t |-> "unbound"]
Str(s) == [t |-> "str", s |-> s]
Num(n) == [t |-> "int", n |-> n]

\* bool(v): None, "" and 0 are falsy; every other value, objects included, is truthy
Truthy(v) ==
    CASE v.t = "none" -> FALSE
      [] v.t = "str" -> v.s # ""
      [] v.t = "int" -> v.n # 0
      [] OTHER -> TRUE

\* v or d
Or(v, d) == IF Truthy(v) THEN v ELSE d

\* a bug: the default is forgotten
IfNotNoneForgotten(v, d) == v

\* v if v is not None else d
IfNotNone(v, d) == IF v # None THEN v ELSE d

\* getattr(obj, name, default)
GetAttr(obj, name, default) == IF obj[name] = Absent THEN default ELSE obj[name]

Range(s) == {s[i] : i \in 1..Len(s)}

SeqsUpTo(S, n) == UNION {[1..k -> S] : k \in 0..n}

\* the elements of s whose positions are in keep, in the order of s
RECURSIVE Pick(_, _, _)
Pick(s, keep, i) ==
    IF i > Len(s) THEN <<>>
    ELSE (IF i \in keep THEN <<s[i]>> ELSE <<>>) \o Pick(s, keep, i + 1)

\* the sequences that keep some elements of s, in the order of s
Sublists(s) == {Pick(s, keep, 1) : keep \in SUBSET (1..Len(s))}

----------------------------------------------------------------------------
(* Python dicts: insertion-ordered sequences of <<key, value>> *)

DictKeys(d) == [i \in 1..Len(d) |-> d[i][1]]

DictHas(d, k) == \E i \in 1..Len(d) : d[i][1] = k

DictGet(d, k) == d[CHOOSE i \in 1..Len(d) : d[i][1] = k][2]

\* d[k] = v: a key already there keeps its place and takes the new value
DictSet(d, k, v) ==
    IF DictHas(d, k)
    THEN [i \in 1..Len(d) |-> IF d[i][1] = k THEN <<k, v>> ELSE d[i]]
    ELSE Append(d, <<k, v>>)

----------------------------------------------------------------------------
(* to_iso *)

Pad(n, w) == IF w = 4
             THEN (IF n < 10 THEN "000" ELSE IF n < 100 THEN "00" ELSE IF n < 1000 THEN "0" ELSE "") \o ToString(n)
             ELSE IF w = 6
             THEN (IF n < 10 THEN "00000" ELSE IF n < 100 THEN "0000" ELSE IF n < 1000 THEN "000"
                   ELSE IF n < 10000 THEN "00" ELSE IF n < 100000 THEN "0" ELSE "") \o ToString(n)
             ELSE (IF n < 10 THEN "0" ELSE "") \o ToString(n)

\* datetime.isoformat(): YYYY-MM-DDTHH:MM:SS[.ffffff][+HH:MM]
IsoFormat(dt) ==
    LET off == IF dt.offset < 0 THEN -dt.offset ELSE dt.offset
    IN  Pad(dt.year, 4) \o "-" \o Pad(dt.month, 2) \o "-" \o Pad(dt.day, 2) \o "T"
        \o Pad(dt.hour, 2) \o ":" \o Pad(dt.minute, 2) \o ":" \o Pad(dt.second, 2)
        \o (IF dt.microsecond # 0 THEN "." \o Pad(dt.microsecond, 6) ELSE "")
        \o (IF dt.aware
            THEN (IF dt.offset < 0 THEN "-" ELSE "+") \o Pad(off \div 60, 2) \o ":" \o Pad(off % 60, 2)
            ELSE "")

\* a bug: the str branch is missing, so a timestamp that is a string already is lost
to_iso_datetime_only(dt) ==
    IF dt.t = "datetime" THEN Str(IsoFormat(dt))
    ELSE Str("")

to_iso(dt) ==
    IF dt.t = "datetime" THEN Str(IsoFormat(dt))
    ELSE IF dt.t = "str" THEN dt
    ELSE Str("")

----------------------------------------------------------------------------
(* gather_all_job_runs: the body of the loop over runs *)

Creator(username, name, email) ==
    [t |-> "creator", username |-> username, name |-> name, email |-> email]

\* the entry job_meta holds for one job
JobMetaEntry(job_obj) ==
    LET c == job_obj.creator
    IN  [jobName |-> job_obj.name,
         userUsername |-> IF Truthy(c) THEN c.username ELSE None,
         userName |-> IF Truthy(c) THEN c.name ELSE None,
         userEmail |-> IF Truthy(c) THEN c.email ELSE None]

RECURSIVE BuildJobMetaFrom(_, _, _)
BuildJobMetaFrom(jobs, i, d) ==
    IF i > Len(jobs) THEN d
    ELSE BuildJobMetaFrom(jobs, i + 1, DictSet(d, jobs[i].id, JobMetaEntry(jobs[i])))

BuildJobMeta(jobs) == BuildJobMetaFrom(jobs, 1, <<>>)

RECURSIVE BuildProjectLookupFrom(_, _, _)
BuildProjectLookupFrom(projects, i, d) ==
    IF i > Len(projects) THEN d
    ELSE BuildProjectLookupFrom(projects, i + 1, DictSet(d, projects[i].id, projects[i].name))

BuildProjectLookup(projects) == BuildProjectLookupFrom(projects, 1, <<>>)

\* a bug: the job-level fallback is taken only while the locals are unset, so a
\* run-level creator stays in them for the runs and jobs that follow
ResolveCreatorSticky(prev, meta, run) ==
    IF Truthy(run.creator)
    THEN [userUsername |-> run.creator.username, userName |-> run.creator.name,
          userEmail |-> run.creator.email]
    ELSE IF prev = Unbound
    THEN [userUsername |-> meta.userUsername, userName |-> meta.userName,
          userEmail |-> meta.userEmail]
    ELSE prev

\* run_userUsername, run_userName, run_userEmail once the run's creator is looked at;
\* prev holds the locals as the previous iteration left them
ResolveCreator(prev, meta, run) ==
    IF Truthy(run.creator)
    THEN [userUsername |-> run.creator.username, userName |-> run.creator.name,
          userEmail |-> run.creator.email]
    ELSE [userUsername |-> meta.userUsername, userName |-> meta.userName,
          userEmail |-> meta.userEmail]

fieldnames ==
    <<"UserUsername", "UserName", "UserEmail", "ProjectID", "ProjectName", "JobID",
      "JobName", "RunID", "Status", "CreatedAt", "SchedulingAt", "StartingAt",
      "RunningAt", "FinishedAt", "Kernel", "CPU", "Memory", "NvidiaGPU", "Arguments",
      "RuntimeIdentifier">>

\* a bug: the row's JobID is read from the run's id
BuildRowRunIdAsJobId(project_id, project_name, meta, run, u) ==
    <<
      <<"UserUsername", Or(u.userUsername, Str(""))>>,
      <<"UserName", Or(u.userName, Str(""))>>,
      <<"UserEmail", Or(u.userEmail, Str(""))>>,
      <<"ProjectID", project_id>>,
      <<"ProjectName", project_name>>,
      <<"JobID", run.id>>,
      <<"JobName", meta.jobName>>,
      <<"RunID", run.id>>,
      <<"Status", Or(run.status, Str(""))>>,
      <<"CreatedAt", to_iso(GetAttr(run, "created_at", None))>>,
      <<"SchedulingAt", to_iso(GetAttr(run, "scheduling_at", None))>>,
      <<"StartingAt", to_iso(GetAttr(run, "starting_at", None))>>,
      <<"RunningAt", to_iso(GetAttr(run, "running_at", None))>>,
      <<"FinishedAt", to_iso(GetAttr(run, "finished_at", None))>>,
      <<"Kernel", Or(run.kernel, Str(""))>>,
      <<"CPU", IfNotNone(run.cpu, Num(0))>>,
      <<"Memory", IfNotNone(run.memory, Num(0))>>,
      <<"NvidiaGPU", IfNotNone(run.nvidia_gpu, Num(0))>>,
      <<"Arguments", Or(run.arguments, Str(""))>>,
      <<"RuntimeIdentifier", Or(run.runtime_identifier, Str(""))>>
    >>

\* the row dict of one run; u holds the resolved run_user* locals
BuildRow(project_id, project_name, meta, run, u) ==
    <<
      <<"UserUsername", Or(u.userUsername, Str(""))>>,
      <<"UserName", Or(u.userName, Str(""))>>,
      <<"UserEmail", Or(u.userEmail, Str(""))>>,
      <<"ProjectID", project_id>>,
      <<"ProjectName", project_name>>,
      <<"JobID", run.job_id>>,
      <<"JobName", meta.jobName>>,
      <<"RunID", run.id>>,
      <<"Status", Or(run.status, Str(""))>>,
      <<"CreatedAt", to_iso(GetAttr(run, "created_at", None))>>,
      <<"SchedulingAt", to_iso(GetAttr(run, "scheduling_at", None))>>,
      <<"StartingAt", to_iso(GetAttr(run, "starting_at", None))>>,
      <<"RunningAt", to_iso(GetAttr(run, "running_at", None))>>,
      <<"FinishedAt", to_iso(GetAttr(run, "finished_at", None))>>,
      <<"Kernel", Or(run.kernel, Str(""))>>,
      <<"CPU", IfNotNone(run.cpu, Num(0))>>,
      <<"Memory", IfNotNone(run.memory, Num(0))>>,
      <<"NvidiaGPU", IfNotNone(run.nvidia_gpu, Num(0))>>,
      <<"Arguments", Or(run.arguments, Str(""))>>,
      <<"RuntimeIdentifier", Or(run.runtime_identifier, Str(""))>>
    >>

\* for run in runs_resp.job_runs: st holds rows and the run_user* locals
RECURSIVE ForEachRun(_, _, _, _, _, _)
ForEachRun(runs, i, project_id, project_name, meta, st) ==
    IF i > Len(runs) THEN st
    ELSE LET u == ResolveCreator(st.run_user, meta, runs[i])
             row == BuildRow(project_id, project_name, meta, runs[i], u)
         IN  ForEachRun(runs, i + 1, project_id, project_name, meta,
                        [rows |-> Append(st.rows, row), run_user |-> u])

----------------------------------------------------------------------------
(* write_all_job_runs_csv *)

\* the code points of the str values that reach the sort key
CodePoints(s) ==
    CASE s = "" -> <<>>
      [] s = "2024-01-01T00:00:00" -> <<50, 48, 50, 52, 45, 48, 49, 45, 48, 49, 84, 48, 48, 58, 48, 48, 58, 48, 48>>
      [] s = "2024-01-02T00:00:00" -> <<50, 48, 50, 52, 45, 48, 49, 45, 48, 50, 84, 48, 48, 58, 48, 48, 58, 48, 48>>
      [] s = "2024-01-03T00:00:00" -> <<50, 48, 50, 52, 45, 48, 49, 45, 48, 51, 84, 48, 48, 58, 48, 48, 58, 48, 48>>
      [] s = "2024-01-04T00:00:00" -> <<50, 48, 50, 52, 45, 48, 49, 45, 48, 52, 84, 48, 48, 58, 48, 48, 58, 48, 48>>
      [] s = "2024-01-05T00:00:00" -> <<50, 48, 50, 52, 45, 48, 49, 45, 48, 53, 84, 48, 48, 58, 48, 48, 58, 48, 48>>
      [] s = "2024-01-06T00:00:00" -> <<50, 48, 50, 52, 45, 48, 49, 45, 48, 54, 84, 48, 48, 58, 48, 48, 58, 48, 48>>
      [] s = "Alpha" -> <<65, 108, 112, 104, 97>>
      [] s = "Beta" -> <<66, 101, 116, 97>>
      [] s = "Export" -> <<69, 120, 112, 111, 114, 116>>
      [] s = "Nightly" -> <<78, 105, 103, 104, 116, 108, 121>>
      [] s = "Report" -> <<82, 101, 112, 111, 114, 116>>
      [] s = "alice" -> <<97, 108, 105, 99, 101>>
      [] s = "bob" -> <<98, 111, 98>>
      [] s = "dana" -> <<100, 97, 110, 97>>

\* a < b for two sequences of code points: the first place where they differ
\* decides, and a proper prefix is the smaller
RECURSIVE CodesLessFrom(_, _, _)
CodesLessFrom(a, b, i) ==
    IF i > Len(b) THEN FALSE
    ELSE IF i > Len(a) THEN TRUE
    ELSE IF a[i] = b[i] THEN CodesLessFrom(a, b, i + 1)
    ELSE a[i] < b[i]

\* a < b for two str values
StrLess(a, b) == CodesLessFrom(CodePoints(a.s), CodePoints(b.s), 1)

\* a bug: CreatedAt is left out of the key
sort_key_no_created(r) ==
    <<DictGet(r, "UserUsername"), DictGet(r, "ProjectName"), DictGet(r, "JobName")>>

sort_key(r) ==
    <<DictGet(r, "UserUsername"), DictGet(r, "CreatedAt"), DictGet(r, "ProjectName"),
      DictGet(r, "JobName")>>

\* tuple comparison a < b: the first component that differs decides
RECURSIVE TupleLessFrom(_, _, _)
TupleLessFrom(a, b, i) ==
    IF i > Len(a) THEN FALSE
    ELSE IF a[i] = b[i] THEN TupleLessFrom(a, b, i + 1)
    ELSE StrLess(a[i], b[i])

TupleLess(a, b) == TupleLessFrom(a, b, 1)

\* r put into the sorted list s after every element that is not greater than it
RECURSIVE InsertSorted(_, _)
InsertSorted(s, r) ==
    IF s = <<>> THEN <<r>>
    ELSE IF TupleLess(sort_key(r), sort_key(s[Len(s)]))
    THEN Append(InsertSorted(SubSeq(s, 1, Len(s) - 1), r), s[Len(s)])
    ELSE Append(s, r)

\* rows.sort(key=sort_key): a stable sort
RECURSIVE SortFrom(_, _, _)
SortFrom(rs, i, acc) ==
    IF i > Len(rs) THEN acc ELSE SortFrom(rs, i + 1, InsertSorted(acc, rs[i]))

SortRows(rs) == SortFrom(rs, 1, <<>>)

\* what the csv module writes for one value: None as the empty string, str(v) otherwise
CsvCell(v) ==
    CASE v.t = "none" -> ""
      [] v.t = "str" -> v.s
      [] v.t = "int" -> ToString(v.n)

\* DictWriter.writerow: the row's values in the order of fieldnames
CsvLine(row) == [i \in 1..Len(fieldnames) |-> CsvCell(DictGet(row, fieldnames[i]))]

\* the header line, then one line per row
CsvFile(rs) == <<fieldnames>> \o [i \in 1..Len(rs) |-> CsvLine(rs[i])]

----------------------------------------------------------------------------
(* The management API as export-job-history.py sees it *)

Dt(year, month, day) ==
    [t |-> "datetime", year |-> year, month |-> month, day |-> day, hour |-> 0,
     minute |-> 0, second |-> 0, microsecond |-> 0, aware |-> FALSE, offset |-> 0]

Alice == Creator(Str("alice"), Str("Alice A"), Str("alice@example.com"))
Bob == Creator(Str("bob"), Str("Bob B"), Str("bob@example.com"))
\* a creator object whose username and email are null
Nameless == Creator(None, Str("Carol C"), None)

\* a creator object whose name is null
Dana == Creator(Str("dana"), None, Str("dana@example.com"))

RunCreators == {None, Bob, Nameless}

\* the projects the credential can see
ProjectPool ==
    <<[id |-> Str("p1"), name |-> Str("Alpha")], [id |-> Str("p2"), name |-> Str("Beta")]>>

\* the jobs of a project, with and without a creator; ids are unique across projects
JobPool(project_id) ==
    IF project_id = Str("p1")
    THEN <<[id |-> Str("j1"), name |-> Str("Nightly"), creator |-> Alice],
           [id |-> Str("j2"), name |-> Str("Report"), creator |-> None]>>
    ELSE <<[id |-> Str("j3"), name |-> Str("Nightly"), creator |-> None],
           [id |-> Str("j4"), name |-> Str("Export"), creator |-> Dana]>>

\* list_projects responses: projects_resp.projects
ProjectListings == Sublists(ProjectPool)

\* list_jobs responses: job_list.jobs
JobListings(project_id) == Sublists(JobPool(project_id))

\* the i-th run the API returns for a job: job_id is the job the runs were asked for
ApiRun(job_id, i, creator) ==
    [t |-> "run", id |-> Str(job_id.s \o "-r" \o ToString(i)), job_id |-> job_id,
     status |-> Str("succeeded"), created_at |-> Dt(2024, 1, i),
     scheduling_at |-> Dt(2024, 1, i), starting_at |-> Dt(2024, 1, i),
     running_at |-> Str("2024-01-03T00:00:00"), finished_at |-> None,
     kernel |-> Str("python3"), cpu |-> Num(1), memory |-> Num(2), nvidia_gpu |-> None,
     arguments |-> None, runtime_identifier |-> Str("rt"), creator |-> creator]

\* list_job_runs responses: runs_resp.job_runs
RunListings(job_id, most) ==
    {[i \in 1..Len(cs) |-> ApiRun(job_id, i, cs[i])] : cs \in SeqsUpTo(RunCreators, most)}

Call(op, project, job, ok, resp) ==
    [op |-> op, project |-> project, job |-> job, ok |-> ok, resp |-> resp]

----------------------------------------------------------------------------
(* export-job-history.py: main, gather_all_job_runs, write_all_job_runs_csv *)

ZeroResources == [cpu |-> 0, memory |-> 0, gpu |-> 0]

\* the metrics script is not running
MetricsIdle ==
    /\ all_projects = <<>>
    /\ ai = 1
    /\ totals = [job |-> ZeroResources, app |-> ZeroResources, model |-> ZeroResources,
                 total |-> ZeroResources]
    /\ result = Unbound

Init ==
    /\ pc = "start"
    /\ project_lookup = <<>>
    /\ pi = 1
    /\ job_list = <<>>
    /\ job_meta = <<>>
    /\ ji = 1
    /\ run_user = Unbound
    /\ rows = <<>>
    /\ csv = <<>>
    /\ log = <<>>
    /\ api = <<>>
    /\ input = <<>>
    /\ MetricsIdle

\* a bug: a failed list_jobs call ends the enumeration (return in place of continue)
OnListJobsErrorReturn(p, lookup) == Len(lookup) + 1

\* except ApiException around list_jobs: continue with the project after p
OnListJobsError(p, lookup) == p + 1

\* a bug: a failed list_job_runs call ends the loop over the project's jobs (break)
OnListJobRunsErrorBreak(j, jobs) == Len(jobs) + 1

\* except ApiException around list_job_runs: continue with the job after j
OnListJobRunsError(j, jobs) == j + 1

\* where control is once the project loop stands at position p
AtProject(p, lookup) ==
    IF p <= Len(lookup) THEN [pc |-> "projects", pi |-> p] ELSE [pc |-> "gathered", pi |-> p]

\* where control is once the job loop of the project at p stands at position j
AtJob(p, lookup, j, jobs) ==
    IF j <= Len(jobs)
    THEN [pc |-> "jobs", pi |-> p, ji |-> j]
    ELSE [pc |-> AtProject(p + 1, lookup).pc, pi |-> p + 1, ji |-> j]

ListProjectsOk ==
    /\ pc = "start"
    /\ \E projects \in ProjectListings :
         LET lookup == BuildProjectLookup(projects)
         IN  /\ project_lookup' = lookup
             /\ pc' = AtProject(1, lookup).pc
             /\ api' = Append(api, Call("list_projects", None, None, TRUE, projects))
    /\ UNCHANGED <<pi, job_list, job_meta, ji, run_user, rows, csv, log, input>>
    /\ UNCHANGED metricsVars

ListProjectsFail ==
    /\ pc = "start"
    /\ api' = Append(api, Call("list_projects", None, None, FALSE, <<>>))
    /\ log' = Append(log, "[ERROR] listing projects")
    /\ pc' = "gathered"
    /\ UNCHANGED <<project_lookup, pi, job_list, job_meta, ji, run_user, rows, csv, input>>
    /\ UNCHANGED metricsVars

ListJobsOk ==
    /\ pc = "projects"
    /\ LET project_id == project_lookup[pi][1]
       IN  \E jobs \in JobListings(project_id) :
             LET next == AtJob(pi, project_lookup, 1, jobs)
             IN  /\ job_list' = jobs
                 /\ job_meta' = BuildJobMeta(jobs)
                 /\ pc' = next.pc
                 /\ pi' = next.pi
                 /\ ji' = next.ji
                 /\ api' = Append(api, Call("list_jobs", project_id, None, TRUE, jobs))
    /\ UNCHANGED <<project_lookup, run_user, rows, csv, log, input>>
    /\ UNCHANGED metricsVars

ListJobsFail ==
    /\ pc = "projects"
    /\ LET project_id == project_lookup[pi][1]
           next == AtProject(OnListJobsError(pi, project_lookup), project_lookup)
       IN  /\ api' = Append(api, Call("list_jobs", project_id, None, FALSE, <<>>))
           /\ log' = Append(log, "[ERROR] listing jobs for project=" \o project_id.s)
           /\ pc' = next.pc
           /\ pi' = next.pi
    /\ UNCHANGED <<project_lookup, job_list, job_meta, ji, run_user, rows, csv, input>>
    /\ UNCHANGED metricsVars

ListJobRunsOk ==
    /\ pc = "jobs"
    /\ LET project_id == project_lookup[pi][1]
           project_name == project_lookup[pi][2]
           job_obj == job_list[ji]
       IN  \E runs \in RunListings(job_obj.id, MaxRows - Len(rows)) :
             LET st == ForEachRun(runs, 1, project_id, project_name,
                                  DictGet(job_meta, job_obj.id),
                                  [rows |-> rows, run_user |-> run_user])
                 next == AtJob(pi, project_lookup, ji + 1, job_list)
             IN  /\ rows' = st.rows
                 /\ run_user' = st.run_user
                 /\ pc' = next.pc
                 /\ pi' = next.pi
                 /\ ji' = next.ji
                 /\ api' = Append(api, Call("list_job_runs", project_id, job_obj.id, TRUE, runs))
    /\ UNCHANGED <<project_lookup, job_list, job_meta, csv, log, input>>
    /\ UNCHANGED metricsVars

ListJobRunsFail ==
    /\ pc = "jobs"
    /\ LET project_id == project_lookup[pi][1]
           job_obj == job_list[ji]
           next == AtJob(pi, project_lookup, OnListJobRunsError(ji, job_list), job_list)
       IN  /\ api' = Append(api, Call("list_job_runs", project_id, job_obj.id, FALSE, <<>>))
           /\ log' = Append(log, "[ERROR] listing job runs for job " \o job_obj.id.s)
           /\ pc' = next.pc
           /\ pi' = next.pi
           /\ ji' = next.ji
    /\ UNCHANGED <<project_lookup, job_list, job_meta, run_user, rows, csv, input>>
    /\ UNCHANGED metricsVars

\* main: write_all_job_runs_csv(all_runs), then the closing message
WriteCsv ==
    /\ pc = "gathered"
    /\ rows' = SortRows(rows)
    /\ csv' = CsvFile(SortRows(rows))
    /\ log' = Append(log, "Done!")
    /\ pc' = "done"
    /\ UNCHANGED <<project_lookup, pi, job_list, job_meta, ji, run_user, api, input>>
    /\ UNCHANGED metricsVars

\* open() or a write fails: the rows are sorted already, the error ends the process
WriteCsvIoError ==
    /\ pc = "gathered"
    /\ rows' = SortRows(rows)
    /\ pc' = "io_error"
    /\ UNCHANGED <<project_lookup, pi, job_list, job_meta, ji, run_user, csv, log, api, input>>
    /\ UNCHANGED metricsVars

Next ==
    \/ ListProjectsOk
    \/ ListProjectsFail
    \/ ListJobsOk
    \/ ListJobsFail
    \/ ListJobRunsOk
    \/ ListJobRunsFail
    \/ WriteCsv
    \/ WriteCsvIoError

Spec == Init /\ [][Next]_vars

----------------------------------------------------------------------------
(* What the export is checked against: the API calls made and their responses *)

Terminated == pc \in {"gathered", "done", "io_error"}

ListingOk == api # <<>> /\ api[1].op = "list_projects" /\ api[1].ok

ListingFailed == api # <<>> /\ api[1].op = "list_projects" /\ ~api[1].ok

CallsOf(op) == {i \in 1..Len(api) : api[i].op = op}

OkCallsOf(op) == {i \in CallsOf(op) : api[i].ok}

\* the runs the API returned, each with the project and the job it was returned for
Fetched ==
    UNION {{[project |-> api[i].project, job |-> api[i].job, run |-> r] :
              r \in Range(api[i].resp)} : i \in OkCallsOf("list_job_runs")}

\* the job objects the API returned, each with the project it was returned for
FetchedJobs ==
    UNION {{[project |-> api[i].project, job |-> j] : j \in Range(api[i].resp)} :
             i \in OkCallsOf("list_jobs")}

\* the number of runs the successful list_job_runs calls among api[1..n] returned
RECURSIVE RunsReturned(_)
RunsReturned(n) ==
    IF n = 0 THEN 0
    ELSE RunsReturned(n - 1)
         + (IF api[n].op = "list_job_runs" /\ api[n].ok THEN Len(api[n].resp) ELSE 0)

RowsOf(project_id, job_id) ==
    {k \in 1..Len(rows) :
       DictGet(rows[k], "ProjectID") = project_id /\ DictGet(rows[k], "JobID") = job_id}

RowsOfProject(project_id) ==
    {k \in 1..Len(rows) : DictGet(rows[k], "ProjectID") = project_id}

NullToEmpty(v) == IF v = None THEN Str("") ELSE v

Identity(row) ==
    <<DictGet(row, "UserUsername"), DictGet(row, "UserName"), DictGet(row, "UserEmail")>>

CreatorFields(c) == <<NullToEmpty(c.username), NullToEmpty(c.name), NullToEmpty(c.email)>>

\* the identity a row of run f.run of job f.job is to carry
ExpectedIdentity(f) ==
    LET job == CHOOSE j \in FetchedJobs : j.project = f.project /\ j.job.id = f.job
    IN  IF f.run.creator # None THEN CreatorFields(f.run.creator)
        ELSE IF job.job.creator # None THEN CreatorFields(job.job.creator)
        ELSE <<Str(""), Str(""), Str("")>>

\* C1: every row carries the identity of its own run: the run-level creator's three
\* fields when the run has a creator object, else the creator fields of the job the
\* run was listed for, else three empty strings (a null field reads as the empty
\* string); each row is of exactly one fetched run, so nothing carries over from an
\* earlier run or job.
C1_CreatorResolvedPerRow ==
    \A k \in 1..Len(rows) :
      /\ Cardinality({f \in Fetched : f.run.id = DictGet(rows[k], "RunID")}) = 1
      /\ \A f \in Fetched :
           f.run.id = DictGet(rows[k], "RunID") => Identity(rows[k]) = ExpectedIdentity(f)

\* one job with a creator: a run with its own creator, then a run without one; then a
\* run without a creator of a job without one
C1_Witness ==
    /\ pc = "gathered"
    /\ Len(rows) = 3
    /\ DictGet(rows[1], "JobID") = DictGet(rows[2], "JobID")
    /\ DictGet(rows[3], "JobID") # DictGet(rows[2], "JobID")
    /\ Identity(rows[1]) = <<Str("bob"), Str("Bob B"), Str("bob@example.com")>>
    /\ Identity(rows[2]) = <<Str("alice"), Str("Alice A"), Str("alice@example.com")>>
    /\ Identity(rows[3]) = <<Str(""), Str(""), Str("")>>

\* C2: the rows are as many as the runs the successful list_job_runs calls returned;
\* once the export ends after a successful project listing, every listed project had
\* its list_jobs call and every listed job its list_job_runs call, each pair gave as
\* many rows as runs were returned for it, and a failed call gave none.
C2_RowCountIsRunsFetched ==
    /\ Len(rows) = RunsReturned(Len(api))
    /\ (Terminated /\ ListingOk) =>
         /\ \A p \in Range(api[1].resp) :
              Cardinality({i \in CallsOf("list_jobs") : api[i].project = p.id}) = 1
         /\ \A i \in CallsOf("list_jobs") :
              /\ ~api[i].ok => RowsOfProject(api[i].project) = {}
              /\ \A j \in Range(api[i].resp) :
                   Cardinality({n \in CallsOf("list_job_runs") :
                                  api[n].project = api[i].project /\ api[n].job = j.id}) = 1
         /\ \A n \in CallsOf("list_job_runs") :
              Cardinality(RowsOf(api[n].project, api[n].job))
                = IF api[n].ok THEN Len(api[n].resp) ELSE 0

\* the first project's list_jobs fails, the second project's first job fails, and its
\* second job still gives its rows
C2_Witness ==
    /\ pc = "gathered"
    /\ Len(api) = 5
    /\ api[2].op = "list_jobs" /\ ~api[2].ok
    /\ api[3].op = "list_jobs" /\ api[3].ok
    /\ api[4].op = "list_job_runs" /\ ~api[4].ok
    /\ api[5].op = "list_job_runs" /\ api[5].ok
    /\ Len(rows) = 2

\* C3: every row's ProjectID is the id of a listed project, whose name is the row's
\* ProjectName, and its JobID is the id of a job the list_jobs call for that project
\* returned, whose name is the row's JobName.
C3_RowsReferToListedProjectAndJob ==
    \A k \in 1..Len(rows) :
      /\ ListingOk
      /\ \E p \in Range(api[1].resp) :
           p.id = DictGet(rows[k], "ProjectID") /\ p.name = DictGet(rows[k], "ProjectName")
      /\ \E j \in FetchedJobs :
           /\ j.project = DictGet(rows[k], "ProjectID")
           /\ j.job.id = DictGet(rows[k], "JobID")
           /\ j.job.name = DictGet(rows[k], "JobName")

\* rows of two projects
C3_Witness ==
    /\ Terminated
    /\ \E k, m \in 1..Len(rows) : DictGet(rows[k], "ProjectID") # DictGet(rows[m], "ProjectID")

\* C8: when the project listing fails, the error is logged, no other call is made and
\* the export holds no row (the file written is the header alone); when it succeeds,
\* the export ends only after list_jobs was called for every listed project, whatever
\* calls failed on the way.
C8_OnlyProjectListingFailureEndsExport ==
    /\ ListingFailed =>
         /\ Terminated
         /\ Len(api) = 1
         /\ rows = <<>>
         /\ log # <<>> /\ log[1] = "[ERROR] listing projects"
         /\ pc = "done" => csv = <<fieldnames>>
    /\ (Terminated /\ ListingOk) =>
         {api[i].project : i \in CallsOf("list_jobs")} = {p.id : p \in Range(api[1].resp)}

\* the listing failed and the header-only file is written
C8_Witness == ListingFailed /\ pc = "done" /\ Len(csv) = 1

----------------------------------------------------------------------------
(* write_all_job_runs_csv alone, on lists of rows that differ in the sort key *)

\* a row whose four key fields come from a run-level or job-level creator, a
\* created_at that is null or a string, a project name and a job name
KeyedRow(run_creator, created_at, project_name, job_name) ==
    LET job_obj == [id |-> Str("j1"), name |-> job_name, creator |-> Alice]
        meta == JobMetaEntry(job_obj)
        run == [ApiRun(job_obj.id, 1, run_creator) EXCEPT !.created_at = created_at]
    IN  BuildRow(Str("p1"), project_name, meta, run, ResolveCreator(Unbound, meta, run))

KeyedRows ==
    {KeyedRow(c, a, p, j) :
       c \in {None, Bob}, a \in {None, Str("2024-01-02T00:00:00")},
       p \in {Str("Alpha"), Str("Beta")}, j \in {Str("Nightly"), Str("Report")}}

InitSort ==
    /\ pc = "gathered"
    /\ rows \in SeqsUpTo(KeyedRows, MaxCsvRows)
    /\ input = rows
    /\ project_lookup = <<>>
    /\ pi = 1
    /\ job_list = <<>>
    /\ job_meta = <<>>
    /\ ji = 1
    /\ run_user = Unbound
    /\ csv = <<>>
    /\ log = <<>>
    /\ api = <<>>
    /\ MetricsIdle

NextSort ==
    \/ WriteCsv
    \/ WriteCsvIoError

SpecSort == InitSort /\ [][NextSort]_vars

\* the str values of the sort keys, smallest first
C4_Ascending ==
    <<"", "2024-01-01T00:00:00", "2024-01-02T00:00:00", "2024-01-03T00:00:00",
      "Alpha", "Beta", "Export", "Nightly", "Report", "alice", "bob", "dana">>

C4_Rank(s) == CHOOSE i \in 1..Len(C4_Ascending) : C4_Ascending[i] = s

\* UserUsername, CreatedAt, ProjectName, JobName of a line of the file
C4_Key(line) == <<line[1], line[10], line[5], line[7]>>

C4_KeyLeq(a, b) ==
    \/ a = b
    \/ \E i \in 1..4 :
         /\ \A j \in 1..(i - 1) : a[j] = b[j]
         /\ C4_Rank(a[i]) < C4_Rank(b[i])

\* C4: once the file is written it holds the header and as many lines as rows were
\* given, the lines of those rows, and each line's (UserUsername, CreatedAt, ProjectName, JobName) is not greater than the
\* next line's, comparing the four strings in turn.
C4_FileSortedByKey ==
    pc = "done" =>
      /\ Len(csv) = Len(input) + 1
      /\ csv[1] = fieldnames
      /\ \A i \in 2..(Len(csv) - 1) : C4_KeyLeq(C4_Key(csv[i]), C4_Key(csv[i + 1]))
      /\ {csv[k] : k \in 2..Len(csv)} = {CsvLine(input[i]) : i \in 1..Len(input)}

\* three rows of one user given latest first, which only CreatedAt tells apart from
\* the first
C4_Witness ==
    /\ pc = "done"
    /\ Len(input) = 3
    /\ C4_Key(CsvLine(input[1])) = <<"alice", "2024-01-02T00:00:00", "Alpha", "Nightly">>
    /\ C4_Key(CsvLine(input[2])) = <<"alice", "", "Beta", "Report">>
    /\ C4_Key(CsvLine(input[3])) = <<"bob", "", "Alpha", "Nightly">>
    /\ csv[2] = CsvLine(input[2])

----------------------------------------------------------------------------
(* The loop body of gather_all_job_runs on one run, then the file *)

DtNaive ==
    [t |-> "datetime", year |-> 2024, month |-> 1, day |-> 2, hour |-> 3, minute |-> 4,
     second |-> 5, microsecond |-> 0, aware |-> FALSE, offset |-> 0]

DtUtc == [DtNaive EXCEPT !.aware = TRUE]

\* 6000 microseconds, five and a half hours behind UTC
DtMicro == [DtNaive EXCEPT !.aware = TRUE, !.microsecond = 6000, !.offset = -330]

\* what a timestamp attribute of a run may hold
TsValues == {Absent, None, Str("2024-01-02T00:00:00"), Num(1704164645), DtNaive, DtUtc, DtMicro}

BaseInput ==
    [project |-> ProjectPool[1], job_obj |-> JobPool(Str("p1"))[1],
     run |-> ApiRun(Str("j1"), 1, None)]

\* every combination of the five timestamps
RowInputsTimestamps ==
    {[BaseInput EXCEPT !.run.created_at = a, !.run.scheduling_at = b, !.run.starting_at = c,
                       !.run.running_at = d, !.run.finished_at = e] :
       a \in TsValues, b \in TsValues, c \in TsValues, d \in TsValues, e \in TsValues}

\* the other attributes, each null or set; a job and a run with and without creator
RowInputsScalars ==
    {[project |-> [id |-> Str("p1"), name |-> n.pn],
      job_obj |-> [id |-> Str("j1"), name |-> n.jn, creator |-> c.jc],
      run |-> [ApiRun(Str("j1"), 1, c.rc) EXCEPT
                 !.status = x.status, !.kernel = x.kernel, !.arguments = x.arguments,
                 !.runtime_identifier = x.runtime_identifier,
                 !.cpu = r.cpu, !.memory = r.memory, !.nvidia_gpu = r.nvidia_gpu]] :
       n \in [pn : {None, Str("Alpha")}, jn : {None, Str("Nightly")}],
       c \in [jc : {None, Alice, Dana}, rc : {None, Bob, Nameless}],
       x \in [status : {None, Str("failed")}, kernel : {None, Str("python3")},
              arguments : {None, Str("--fast")}, runtime_identifier : {None, Str("rt")}],
       r \in [cpu : {None, Num(0), Num(2)}, memory : {None, Num(4)},
              nvidia_gpu : {None, Num(1)}]}

InitRow ==
    /\ pc = "row"
    /\ input \in RowInputsTimestamps \cup RowInputsScalars
    /\ project_lookup = <<>>
    /\ pi = 1
    /\ job_list = <<>>
    /\ job_meta = <<>>
    /\ ji = 1
    /\ run_user = Unbound
    /\ rows = <<>>
    /\ csv = <<>>
    /\ log = <<>>
    /\ api = <<>>
    /\ MetricsIdle

\* one project with one job, for which the API returns one run
GatherOne ==
    /\ pc = "row"
    /\ LET lookup == BuildProjectLookup(<<input.project>>)
           jobs == <<input.job_obj>>
           meta == BuildJobMeta(jobs)
           st == ForEachRun(<<input.run>>, 1, lookup[1][1], lookup[1][2],
                            DictGet(meta, jobs[1].id), [rows |-> rows, run_user |-> run_user])
       IN  /\ project_lookup' = lookup
           /\ job_list' = jobs
           /\ job_meta' = meta
           /\ rows' = st.rows
           /\ run_user' = st.run_user
    /\ pc' = "gathered"
    /\ UNCHANGED <<pi, ji, csv, log, api, input>>
    /\ UNCHANGED metricsVars

NextRow ==
    \/ GatherOne
    \/ WriteCsv
    \/ WriteCsvIoError

SpecRow == InitRow /\ [][NextRow]_vars

C5_Columns ==
    <<"UserUsername", "UserName", "UserEmail", "ProjectID", "ProjectName", "JobID",
      "JobName", "RunID", "Status", "CreatedAt", "SchedulingAt", "StartingAt",
      "RunningAt", "FinishedAt", "Kernel", "CPU", "Memory", "NvidiaGPU", "Arguments",
      "RuntimeIdentifier">>

C5_Index(name) == CHOOSE i \in 1..20 : C5_Columns[i] = name

C5_Cell(name) == csv[2][C5_Index(name)]

\* C5: the row dict holds the 20 fields in the fixed order; a null cpu, memory or gpu
\* count is 0 in it and a null status, kernel, arguments or runtime identifier the
\* empty string. The file's header is the 20 names and its line has 20 cells, "0" for
\* a null number and "" for a null string, the project and job names included.
C5_TwentyFieldsWithDefaults ==
    /\ rows # <<>> =>
         /\ DictKeys(rows[1]) = C5_Columns
         /\ input.run.cpu = None => DictGet(rows[1], "CPU") = Num(0)
         /\ input.run.memory = None => DictGet(rows[1], "Memory") = Num(0)
         /\ input.run.nvidia_gpu = None => DictGet(rows[1], "NvidiaGPU") = Num(0)
         /\ input.run.cpu # None => DictGet(rows[1], "CPU") = input.run.cpu
         /\ input.run.status = None => DictGet(rows[1], "Status") = Str("")
         /\ input.run.kernel = None => DictGet(rows[1], "Kernel") = Str("")
         /\ input.run.arguments = None => DictGet(rows[1], "Arguments") = Str("")
         /\ input.run.runtime_identifier = None =>
              DictGet(rows[1], "RuntimeIdentifier") = Str("")
         /\ input.run.status # None => DictGet(rows[1], "Status") = input.run.status
    /\ pc = "done" =>
         /\ Len(csv) = 2
         /\ csv[1] = C5_Columns
         /\ Len(csv[2]) = 20
         /\ input.run.cpu = None => C5_Cell("CPU") = "0"
         /\ input.run.memory = None => C5_Cell("Memory") = "0"
         /\ input.run.nvidia_gpu = None => C5_Cell("NvidiaGPU") = "0"
         /\ input.run.cpu = Num(2) => C5_Cell("CPU") = "2"
         /\ input.run.status = None => C5_Cell("Status") = ""
         /\ input.run.kernel = None => C5_Cell("Kernel") = ""
         /\ input.run.arguments = None => C5_Cell("Arguments") = ""
         /\ input.run.runtime_identifier = None => C5_Cell("RuntimeIdentifier") = ""
         /\ input.project.name = None => C5_Cell("ProjectName") = ""
         /\ input.job_obj.name = None => C5_Cell("JobName") = ""
         /\ (input.run.creator = None /\ input.job_obj.creator = None) =>
              C5_Cell("UserUsername") = "" /\ C5_Cell("UserName") = "" /\ C5_Cell("UserEmail") = ""

\* a run whose numbers and strings are all null, written to the file
C5_Witness ==
    /\ pc = "done"
    /\ input.run.cpu = None /\ input.run.memory = None /\ input.run.nvidia_gpu = None
    /\ input.run.status = None /\ input.run.kernel = None /\ input.run.arguments = None
    /\ input.run.runtime_identifier = None
    /\ input.project.name = None /\ input.job_obj.name = None
    /\ C5_Cell("CPU") = "0"

\* what isoformat() gives for the datetimes of the model
C9_Iso(dt) ==
    CASE dt = DtNaive -> "2024-01-02T03:04:05"
      [] dt = DtUtc -> "2024-01-02T03:04:05+00:00"
      [] dt = DtMicro -> "2024-01-02T03:04:05.006000-05:30"
      [] dt = Dt(2024, 1, 1) -> "2024-01-01T00:00:00"

C9_Expected(src) ==
    IF src.t = "datetime" THEN Str(C9_Iso(src))
    ELSE IF src.t = "str" THEN src
    ELSE Str("")

C9_Timestamps ==
    {<<"CreatedAt", "created_at">>, <<"SchedulingAt", "scheduling_at">>,
     <<"StartingAt", "starting_at">>, <<"RunningAt", "running_at">>,
     <<"FinishedAt", "finished_at">>}

\* C9: each of the five timestamp fields of the row is a string: the ISO-8601 text of
\* its own source attribute when that is a datetime, the attribute itself when it is a
\* string, and the empty string when it is null, absent or of any other type.
C9_TimestampsAreIsoStrings ==
    rows # <<>> =>
      \A f \in C9_Timestamps :
        /\ DictGet(rows[1], f[1]).t = "str"
        /\ DictGet(rows[1], f[1]) = C9_Expected(input.run[f[2]])

\* one row with a datetime, a number, an absent attribute, a string and a null
C9_Witness ==
    /\ rows # <<>>
    /\ input.run.created_at = DtMicro
    /\ input.run.scheduling_at = Num(1704164645)
    /\ input.run.starting_at = Absent
    /\ input.run.running_at = Str("2024-01-02T00:00:00")
    /\ input.run.finished_at = None
    /\ DictGet(rows[1], "CreatedAt") = Str("2024-01-02T03:04:05.006000-05:30")
    /\ DictGet(rows[1], "RunningAt") = Str("2024-01-02T00:00:00")

----------------------------------------------------------------------------
(* pull-cml-metrics.py: the three get_*_resources functions *)

\* int(v) for the values default_resources holds
IntOf(v) ==
    CASE v.t = "int" -> v.n
      [] v = Str("0") -> 0
      [] v = Str("1") -> 1
      [] v = Str("2000") -> 2000
      [] v = Str("2048") -> 2048

\* the body of the try block: the three += in turn; reading an attribute the entity
\* lacks raises AttributeError and leaves what was added before it
TryAdd(res, c, m, g) ==
    IF c = Absent THEN [res |-> res, raised |-> TRUE]
    ELSE LET r1 == [res EXCEPT !.cpu = @ + c.n]
         IN  IF m = Absent THEN [res |-> r1, raised |-> TRUE]
             ELSE LET r2 == [r1 EXCEPT !.memory = @ + m.n]
                  IN  IF g = Absent THEN [res |-> r2, raised |-> TRUE]
                      ELSE [res |-> [r2 EXCEPT !.gpu = @ + g.n], raised |-> FALSE]

\* the attributes read from a job or an application
PlainFields(e) == <<e.cpu, e.memory, e.nvidia_gpu>>

\* the values the three += of get_model_resources add: millicores / 1000, MB / 1024 and
\* the gpu count; default_resources of None has no attribute at all. The model's
\* values are whole cores and whole GB, so the quotients are exact.
ModelFields(e) ==
    LET d == e.default_resources
    IN  IF d = None THEN <<Absent, Absent, Absent>>
        ELSE <<IF d.cpu_millicores = Absent THEN Absent ELSE Num(IntOf(d.cpu_millicores) \div 1000),
               IF d.memory_mb = Absent THEN Absent ELSE Num(IntOf(d.memory_mb) \div 1024),
               IF d.nvidia_gpus = Absent THEN Absent ELSE Num(IntOf(d.nvidia_gpus))>>

\* for job in jobs: the except clause prints the job and the loop goes on
RECURSIVE JobLoop(_, _, _)
JobLoop(jobs, i, st) ==
    IF i > Len(jobs) THEN st
    ELSE LET f == PlainFields(jobs[i])
             r == TryAdd(st.res, f[1], f[2], f[3])
         IN  JobLoop(jobs, i + 1,
                     [res |-> r.res,
                      out |-> IF r.raised THEN Append(st.out, "Error processing job") ELSE st.out,
                      name_error |-> FALSE])

\* for application in applications / for model in models: the except clause prints
\* `job`, a name neither function nor the module binds, so it raises NameError and
\* the function ends there
RECURSIVE OtherLoop(_, _, _, _)
OtherLoop(entities, i, st, is_model) ==
    IF i > Len(entities) THEN st
    ELSE LET f == IF is_model THEN ModelFields(entities[i]) ELSE PlainFields(entities[i])
             r == TryAdd(st.res, f[1], f[2], f[3])
         IN  IF r.raised
             THEN [res |-> r.res, out |-> st.out, name_error |-> TRUE]
             ELSE OtherLoop(entities, i + 1, [res |-> r.res, out |-> st.out, name_error |-> FALSE],
                            is_model)

NoResources == [res |-> ZeroResources, out |-> <<>>, name_error |-> FALSE]

get_job_resources(jobs) == JobLoop(jobs, 1, NoResources)

get_application_resources(applications) == OtherLoop(applications, 1, NoResources, FALSE)

get_model_resources(models) == OtherLoop(models, 1, NoResources, TRUE)

AddResources(a, b) ==
    [cpu |-> a.cpu + b.cpu, memory |-> a.memory + b.memory, gpu |-> a.gpu + b.gpu]

\* a bug: the models are counted in the grand total too
GrandTotalWithModels(job, app, model) == AddResources(AddResources(job, app), model)

\* total_resources: jobs and applications
GrandTotal(job, app, model) == AddResources(job, app)

\* a bug: the handler returns the sums made so far
AggregateExceptPartial(t) ==
    [t |-> "tuple", v |-> <<t.job, t.app, t.model, GrandTotal(t.job, t.app, t.model)>>]

\* except ApiException in aggregate_resources: return None
AggregateExcept(t) == None

----------------------------------------------------------------------------
(* The management API as pull-cml-metrics.py sees it *)

JobEntities ==
    {[cpu |-> Num(1), memory |-> Num(2), nvidia_gpu |-> Num(1)],
     [cpu |-> Absent, memory |-> Num(2), nvidia_gpu |-> Num(1)],
     [cpu |-> Num(1), memory |-> Absent, nvidia_gpu |-> Num(1)]}

ApplicationEntities ==
    {[cpu |-> Num(2), memory |-> Num(4), nvidia_gpu |-> Num(0)],
     [cpu |-> Absent, memory |-> Num(4), nvidia_gpu |-> Num(0)]}

ModelEntities ==
    {[default_resources |->
        [cpu_millicores |-> Str("2000"), memory_mb |-> Str("2048"), nvidia_gpus |-> Str("1")]],
     [default_resources |-> None]}

\* the operations that return entities
EntityOps == {"list_jobs", "list_applications", "list_models"}

\* the entities the responses so far hold
RECURSIVE EntitiesReturned(_)
EntitiesReturned(n) ==
    IF n = 0 THEN 0
    ELSE EntitiesReturned(n - 1)
         + (IF api[n].op \in EntityOps /\ api[n].ok THEN Len(api[n].resp) ELSE 0)

EntityListings(S) == SeqsUpTo(S, MaxEntities - EntitiesReturned(Len(api)))

----------------------------------------------------------------------------
(* pull-cml-metrics.py: aggregate_resources and the main block *)

InitMetrics ==
    /\ pc = "agg_start"
    /\ project_lookup = <<>>
    /\ pi = 1
    /\ job_list = <<>>
    /\ job_meta = <<>>
    /\ ji = 1
    /\ run_user = Unbound
    /\ rows = <<>>
    /\ csv = <<>>
    /\ log = <<>>
    /\ api = <<>>
    /\ input = <<>>
    /\ MetricsIdle

\* where control is once the project loop stands at position a: at the next project,
\* or past the loop, where the grand total is made and the four totals are returned
AtMetricsProject(a, projects, t) ==
    IF a <= Len(projects)
    THEN [pc |-> "agg_job", totals |-> t, result |-> Unbound]
    ELSE LET done == [t EXCEPT !.total = GrandTotal(t.job, t.app, t.model)]
         IN  [pc |-> "agg_returned", totals |-> done,
              result |-> [t |-> "tuple", v |-> <<done.job, done.app, done.model, done.total>>]]

MetricsListProjectsOk ==
    /\ pc = "agg_start"
    /\ \E projects \in Sublists(ProjectPool) :
         LET next == AtMetricsProject(1, projects, totals)
         IN  /\ all_projects' = projects
             /\ api' = Append(api, Call("list_projects", None, None, TRUE, projects))
             /\ pc' = next.pc
             /\ totals' = next.totals
             /\ result' = next.result
    /\ UNCHANGED <<ai, log, input>>
    /\ UNCHANGED exportVars

\* an ApiException anywhere in the try block: op is the call that raised it, after the
\* calls before of the same function went through
ApiError(before, op, project_id) ==
    /\ api' = api \o before \o <<Call(op, project_id, None, FALSE, <<>>)>>
    /\ log' = Append(log, "Exception when calling ProjectsApi->list_projects")
    /\ result' = AggregateExcept(totals)
    /\ pc' = "agg_returned"
    /\ UNCHANGED <<all_projects, ai, totals, input>>
    /\ UNCHANGED exportVars

GetProjectOk(project_id) == Call("get_project", project_id, None, TRUE, <<>>)

MetricsListProjectsFail ==
    /\ pc = "agg_start"
    /\ ApiError(<<>>, "list_projects", None)

JobResourcesOk ==
    /\ pc = "agg_job"
    /\ LET project_id == all_projects[ai].id
       IN  \E jobs \in EntityListings(JobEntities) :
             LET r == get_job_resources(jobs)
             IN  /\ api' = api \o <<GetProjectOk(project_id),
                                    Call("list_jobs", project_id, None, TRUE, jobs)>>
                 /\ log' = log \o r.out
                 /\ totals' = [totals EXCEPT !.job = AddResources(@, r.res)]
                 /\ pc' = "agg_app"
    /\ UNCHANGED <<all_projects, ai, result, input>>
    /\ UNCHANGED exportVars

JobResourcesApiError ==
    /\ pc = "agg_job"
    /\ \/ ApiError(<<>>, "get_project", all_projects[ai].id)
       \/ ApiError(<<GetProjectOk(all_projects[ai].id)>>, "list_jobs", all_projects[ai].id)

ApplicationResourcesOk ==
    /\ pc = "agg_app"
    /\ LET project_id == all_projects[ai].id
       IN  \E applications \in EntityListings(ApplicationEntities) :
             LET r == get_application_resources(applications)
             IN  /\ api' = api \o <<GetProjectOk(project_id),
                                    Call("list_applications", project_id, None, TRUE, applications)>>
                 /\ log' = log \o r.out
                 /\ IF r.name_error
                    THEN pc' = "agg_name_error" /\ totals' = totals
                    ELSE /\ pc' = "agg_model"
                         /\ totals' = [totals EXCEPT !.app = AddResources(@, r.res)]
    /\ UNCHANGED <<all_projects, ai, result, input>>
    /\ UNCHANGED exportVars

ApplicationResourcesApiError ==
    /\ pc = "agg_app"
    /\ \/ ApiError(<<>>, "get_project", all_projects[ai].id)
       \/ ApiError(<<GetProjectOk(all_projects[ai].id)>>, "list_applications", all_projects[ai].id)

ModelResourcesOk ==
    /\ pc = "agg_model"
    /\ LET project_id == all_projects[ai].id
       IN  \E models \in EntityListings(ModelEntities) :
             LET r == get_model_resources(models)
                 next == AtMetricsProject(ai + 1, all_projects,
                                          [totals EXCEPT !.model = AddResources(@, r.res)])
             IN  /\ api' = api \o <<GetProjectOk(project_id),
                                    Call("list_models", project_id, None, TRUE, models)>>
                 /\ log' = log \o r.out
                 /\ IF r.name_error
                    THEN pc' = "agg_name_error" /\ totals' = totals /\ result' = result /\ ai' = ai
                    ELSE /\ pc' = next.pc
                         /\ totals' = next.totals
                         /\ result' = next.result
                         /\ ai' = ai + 1
    /\ UNCHANGED <<all_projects, input>>
    /\ UNCHANGED exportVars

ModelResourcesApiError ==
    /\ pc = "agg_model"
    /\ \/ ApiError(<<>>, "get_project", all_projects[ai].id)
       \/ ApiError(<<GetProjectOk(all_projects[ai].id)>>, "list_models", all_projects[ai].id)

\* the main block: the four totals are unpacked from what aggregate_resources
\* returned, which raises TypeError for None, and printed
MetricsMain ==
    /\ pc = "agg_returned"
    /\ IF result = None
       THEN pc' = "agg_type_error" /\ log' = log
       ELSE /\ pc' = "agg_done"
            /\ log' = log \o <<"Total Job Resources Consumption Across All Projects:",
                               "Total Application Resources Consumption Across All Projects:",
                               "Total Model Resources Consumption Across All Projects:",
                               "Total Resource Consumption Across All Projects:">>
    /\ UNCHANGED <<api, input>>
    /\ UNCHANGED metricsVars
    /\ UNCHANGED exportVars

NextMetrics ==
    \/ MetricsListProjectsOk
    \/ MetricsListProjectsFail
    \/ JobResourcesOk
    \/ JobResourcesApiError
    \/ ApplicationResourcesOk
    \/ ApplicationResourcesApiError
    \/ ModelResourcesOk
    \/ ModelResourcesApiError
    \/ MetricsMain

SpecMetrics == InitMetrics /\ [][NextMetrics]_vars

----------------------------------------------------------------------------
(* What the aggregation is checked against *)

ReturnedTotals == result.t = "tuple"

C6_Raises(f) == Absent \in {f[1], f[2], f[3]}

\* what an entity is to add: its three values, or nothing when reading one of them fails
C6_Contribution(f) ==
    IF C6_Raises(f) THEN ZeroResources
    ELSE [cpu |-> f[1].n, memory |-> f[2].n, gpu |-> f[3].n]

C6_Fields(op, e) == IF op = "list_models" THEN ModelFields(e) ELSE PlainFields(e)

RECURSIVE C6_SumOfList(_, _, _)
C6_SumOfList(op, entities, i) ==
    IF i = 0 THEN ZeroResources
    ELSE AddResources(C6_SumOfList(op, entities, i - 1),
                      C6_Contribution(C6_Fields(op, entities[i])))

\* the sum over the entities the successful calls of op among api[1..n] returned
RECURSIVE C6_SumOfCalls(_, _)
C6_SumOfCalls(op, n) ==
    IF n = 0 THEN ZeroResources
    ELSE AddResources(C6_SumOfCalls(op, n - 1),
                      IF api[n].op = op /\ api[n].ok
                      THEN C6_SumOfList(op, api[n].resp, Len(api[n].resp))
                      ELSE ZeroResources)

C6_Failing ==
    {<<n, i>> \in (1..Len(api)) \X (1..MaxEntities) :
       /\ api[n].op \in EntityOps /\ api[n].ok /\ i <= Len(api[n].resp)
       /\ C6_Raises(C6_Fields(api[n].op, api[n].resp[i]))}

\* C6: an entity that lacks one of its cpu, memory or gpu attributes is logged, adds
\* nothing to any of the three sums, and the aggregation goes on: it never ends in
\* an uncaught error, each such entity has its log line, and the totals returned are
\* the sums over the entities that have all three attributes.
C6_FieldFailureSkipsTheEntity ==
    /\ pc # "agg_name_error"
    /\ Cardinality({k \in 1..Len(log) : log[k] = "Error processing job"}) = Cardinality(C6_Failing)
    /\ ReturnedTotals =>
         /\ result.v[1] = C6_SumOfCalls("list_jobs", Len(api))
         /\ result.v[2] = C6_SumOfCalls("list_applications", Len(api))
         /\ result.v[3] = C6_SumOfCalls("list_models", Len(api))

\* C7: the totals returned hold a grand total that is, for cpu, memory and gpu, the
\* job total plus the application total, whatever the model total is.
C7_GrandTotalIsJobsPlusApplications ==
    ReturnedTotals =>
      /\ result.v[4].cpu = result.v[1].cpu + result.v[2].cpu
      /\ result.v[4].memory = result.v[1].memory + result.v[2].memory
      /\ result.v[4].gpu = result.v[1].gpu + result.v[2].gpu

\* totals returned with jobs, applications and models all counted
C7_Witness ==
    /\ ReturnedTotals
    /\ result.v[1].cpu > 0 /\ result.v[2].cpu > 0 /\ result.v[3].cpu > 0
    /\ result.v[3].memory > 0 /\ result.v[3].gpu > 0

\* C10: a call that raised ApiException is the last call made; aggregate_resources
\* has returned None, its message printed, and no total is ever printed.
C10_ApiErrorReturnsNoTotals ==
    \A n \in 1..Len(api) :
      ~api[n].ok =>
        /\ n = Len(api)
        /\ result = None
        /\ pc \in {"agg_returned", "agg_type_error"}
        /\ log # <<>> /\ log[Len(log)] = "Exception when calling ProjectsApi->list_projects"
        /\ \A k \in 1..Len(log) : log[k] # "Total Resource Consumption Across All Projects:"

\* a call for the second project fails after the first project gave sums
C10_Witness ==
    /\ Len(all_projects) = 2
    /\ api # <<>>
    /\ ~api[Len(api)].ok
    /\ api[Len(api)].project = all_projects[2].id
    /\ api[Len(api)].op = "list_applications"
    /\ totals.job.cpu > 0 /\ totals.app.cpu > 0 /\ totals.model.cpu > 0
    /\ result = None

====
